---- MODULE Spec2Model ----
(***************************************************************************)
(* The email agent's workflow (src/src/agent/graph.py), its mail           *)
(* dispatcher (src/src/agent/tools.py) and the result rendering of the     *)
(* presentation layer (src/app.py), as one state machine.                  *)
(*                                                                         *)
(* Texts are sequences of tokens: a token is a piece of text that no       *)
(* operation of the program cuts (a keyword such as "REVISION:", a         *)
(* whitespace character, a word).  `x in s` is Contains, s.replace(x, "")  *)
(* removes every x token, s.strip() drops the whitespace tokens at both    *)
(* ends, s.split(x, 1) cuts at the first x token.                          *)
(***************************************************************************)
EXTENDS Naturals, Sequences, FiniteSets

VARIABLES
    goal,               \* AgentState.goal
    recipient,          \* AgentState.recipient
    subject,            \* AgentState.subject
    body,               \* AgentState.body
    review_feedback,    \* AgentState.review_feedback
    status,             \* AgentState.status
    logs,               \* AgentState.logs
    messages,           \* AgentState.messages
    AGENT_CONFIG,       \* graph.py's configuration bridge
    smtp_username,      \* the credentials the send_email tool closes over
    smtp_password,
    pc,                 \* the position of the run in the compiled graph
    email_state,        \* st.session_state.email_state: <<>> is None
    sessions,           \* the browser sessions of SpecSessions, each in run_agent
    draftResponse,      \* history: <<text>> once the Draft model call returned
    path,               \* history: the branch tool_executor / the END edge took
    stepsDone,          \* history: node functions that ran to completion
    dispatchAttempts,   \* history: executions of the tool_executor node
    dispatcherCalls,    \* history: invocations of send_email_func
    connectionAttempts, \* history: smtplib.SMTP connections opened
    dispatchArgs,       \* history: <<args>> handed to the dispatch action
    smtpReply           \* history: what the mail server did, "none" if not asked

vars == <<goal, recipient, subject, body, review_feedback, status, logs,
          messages, AGENT_CONFIG, smtp_username, smtp_password, pc,
          email_state, sessions, draftResponse, path, stepsDone, dispatchAttempts, dispatcherCalls,
          connectionAttempts, dispatchArgs, smtpReply>>

state_fields == <<goal, recipient, subject, body, review_feedback, status,
                  logs, messages>>

config_fields == <<AGENT_CONFIG, smtp_username, smtp_password>>

dispatch_history == <<dispatcherCalls, connectionAttempts, dispatchArgs,
                      smtpReply>>

----------------------------------------------------------------------------
(* Bounds and input sets *)

\* The longest Review response text, in tokens, that the model enumerates.
MaxReviewLen == 3

RECURSIVE SeqsUpTo(_, _)
SeqsUpTo(S, n) ==
    IF n = 0 THEN {<<>>}
    ELSE LET shorter == SeqsUpTo(S, n - 1)
         IN  shorter \cup {Append(s, t) : s \in {x \in shorter : Len(x) = n - 1}, t \in S}

Whitespace == {" ", "\n"}

DELIMITER == "\nBODY:"

SUBJECT_TAG == "SUBJECT:"

REVISION_MARKER == "REVISION:"

ReviewTokens == {REVISION_MARKER, " ", "tone too casual"}

ScenarioBText == <<REVISION_MARKER, " ", "tone too casual">>

ScenarioCText == <<"Looks fine.">>

ReviewTexts == SeqsUpTo(ReviewTokens, MaxReviewLen) \cup {ScenarioBText, ScenarioCText}

DraftTexts ==
    { <<SUBJECT_TAG, " ", "Report", DELIMITER, " ", "Please send the Q4 report.">>,
      <<SUBJECT_TAG, "A", DELIMITER, "b", DELIMITER, "c">>,
      <<DELIMITER, "b">>,
      <<SUBJECT_TAG, " ", "Report", " ", "BODY:", " ", "text">>,
      <<"Report">>,
      <<>> }

Recipients == { <<"a", "@", "b.com">>, <<"not-an-email">> }

Usernames == {"", "sender@gmail.com"}

Passwords == {"", "app-password"}

ToolSets == { <<>>, <<"send_email">>, <<"other_tool">> }

SmtpReplies == {"ok", "auth_rejected", "transport_error"}

ArgKeys == {"recipient", "subject", "body"}

----------------------------------------------------------------------------
(* Text operations *)

Contains(text, tok) == \E i \in 1..Len(text) : text[i] = tok

FirstIndex(text, tok) ==
    CHOOSE i \in 1..Len(text) :
        text[i] = tok /\ \A j \in 1..(i - 1) : text[j] # tok

\* str.split(sep, 1)
split1(text, sep) ==
    IF Contains(text, sep)
    THEN LET i == FirstIndex(text, sep)
         IN  << SubSeq(text, 1, i - 1), SubSeq(text, i + 1, Len(text)) >>
    ELSE << text >>

\* str.replace(tok, '')
replace(text, tok) ==
    LET keep[i \in 0..Len(text)] ==
            IF i = 0 THEN <<>>
            ELSE IF text[i] = tok THEN keep[i - 1] ELSE Append(keep[i - 1], text[i])
    IN  keep[Len(text)]

\* str.strip()
strip(text) ==
    LET solid == {i \in 1..Len(text) : text[i] \notin Whitespace}
    IN  IF solid = {} THEN <<>>
        ELSE LET lo == CHOOSE i \in solid : \A j \in solid : i <= j
                 hi == CHOOSE i \in solid : \A j \in solid : j <= i
             IN  SubSeq(text, lo, hi)

\* langchain's get_buffer_string on one AI message: "AI: " + content
get_buffer_string(content) == <<"AI:", " ">> \o content

----------------------------------------------------------------------------
(* The Mail Dispatcher: src/src/agent/tools.py *)

CREDENTIALS_MISSING == <<"ERROR", ": SMTP credentials missing. Cannot send email.">>

INVALID_RECIPIENT ==
    <<"ERROR", ": Invalid recipient address format. Please check the recipient.">>

AUTH_FAILED == <<"ERROR", ": SMTP Authentication failed. Check username and password.">>

\* str(e) of a transport failure is the mail library's text: one opaque token
SMTP_FAILED == <<"ERROR", ": Failed to send email via SMTP. Details: ", "<str(e)>">>

SUCCESS_TEXT(to, subj) ==
    <<"SUCCESS", ": Email titled '">> \o subj \o <<"' sent to ">> \o to \o <<".">>

\* A variant that checks the recipient only once the connection is open.
send_email_func_connect_first(to, subj, text, username, password, reply) ==
    IF ~(username # "" /\ password # "")
    THEN [result |-> CREDENTIALS_MISSING, connects |-> 0]
    ELSE IF ~Contains(to, "@")
    THEN [result |-> INVALID_RECIPIENT, connects |-> 1]
    ELSE IF reply = "ok"
    THEN [result |-> SUCCESS_TEXT(to, subj), connects |-> 1]
    ELSE IF reply = "auth_rejected"
    THEN [result |-> AUTH_FAILED, connects |-> 1]
    ELSE [result |-> SMTP_FAILED, connects |-> 1]

\* A variant that reports nothing when the credentials are missing.
send_email_func_silent(to, subj, text, username, password, reply) ==
    IF ~(username # "" /\ password # "")
    THEN [result |-> <<>>, connects |-> 0]
    ELSE IF ~Contains(to, "@")
    THEN [result |-> INVALID_RECIPIENT, connects |-> 0]
    ELSE IF reply = "ok"
    THEN [result |-> SUCCESS_TEXT(to, subj), connects |-> 1]
    ELSE IF reply = "auth_rejected"
    THEN [result |-> AUTH_FAILED, connects |-> 1]
    ELSE [result |-> SMTP_FAILED, connects |-> 1]

\* The result text and the number of connections opened, given what the mail
\* server does when it is asked (reply).
send_email_func(to, subj, text, username, password, reply) ==
    IF ~(username # "" /\ password # "")
    THEN [result |-> CREDENTIALS_MISSING, connects |-> 0]
    ELSE IF ~Contains(to, "@")
    THEN [result |-> INVALID_RECIPIENT, connects |-> 0]
    ELSE IF reply = "ok"
    THEN [result |-> SUCCESS_TEXT(to, subj), connects |-> 1]
    ELSE IF reply = "auth_rejected"
    THEN [result |-> AUTH_FAILED, connects |-> 1]
    ELSE [result |-> SMTP_FAILED, connects |-> 1]

\* SendEmailArgsSchema: the three fields are required
ValidArgs(args) == ArgKeys \subseteq args.keys

MakeArgs(to, subj, text) ==
    [keys |-> ArgKeys, recipient |-> to, subject |-> subj, body |-> text]

\* A variant of the tool that sends again after an error result.
tool_invoke_retry(args, username, password, reply) ==
    IF ~ValidArgs(args)
    THEN [raised |-> TRUE, result |-> <<>>, connects |-> 0, calls |-> 0]
    ELSE LET r == send_email_func(args.recipient, args.subject, args.body,
                                  username, password, reply)
             again == IF Head(r.result) = "ERROR" THEN 2 ELSE 1
         IN  [raised |-> FALSE, result |-> r.result,
              connects |-> again * r.connects, calls |-> again]

\* A variant of the tool whose dispatcher lets a transport failure escape.
tool_invoke_unhandled(args, username, password, reply) ==
    IF ~ValidArgs(args)
    THEN [raised |-> TRUE, result |-> <<>>, connects |-> 0, calls |-> 0]
    ELSE LET r == send_email_func(args.recipient, args.subject, args.body,
                                  username, password, reply)
         IN  [raised |-> r.result = SMTP_FAILED, result |-> r.result,
              connects |-> r.connects, calls |-> 1]

\* The send_email tool app.py builds: the schema's validation, then
\* send_email_func with the credentials of the sidebar.
tool_invoke(args, username, password, reply) ==
    IF ~ValidArgs(args)
    THEN [raised |-> TRUE, result |-> <<>>, connects |-> 0, calls |-> 0]
    ELSE LET r == send_email_func(args.recipient, args.subject, args.body,
                                  username, password, reply)
         IN  [raised |-> FALSE, result |-> r.result, connects |-> r.connects,
              calls |-> 1]

----------------------------------------------------------------------------
(* The workflow: src/src/agent/graph.py *)

log_step(name, outcome, details) ==
    [node |-> name, status |-> outcome, details |-> details]

\* A variant that starts a fresh list in every node.
append_log_fresh(current_logs, log) == <<log>>

\* current_logs = state.get("logs", []); current_logs.append(log)
append_log(current_logs, log) == Append(current_logs, log)

AIMessage(content, tool_calls) ==
    [type |-> "ai", content |-> content, tool_calls |-> tool_calls]

DRAFTING_FAILED == <<"ERROR: Drafting Failed">>

\* A variant that takes a text without the delimiter as a body with no subject.
parse_draft_lenient(content) ==
    LET raw_content == get_buffer_string(content)
        parts == split1(raw_content, DELIMITER)
        subj == IF Len(parts) = 2 THEN strip(replace(parts[1], SUBJECT_TAG)) ELSE <<>>
    IN  [subject |-> subj,
         body |-> strip(parts[Len(parts)]),
         log |-> log_step("Draft_Creator", "Success",
                          <<"Subject drafted: ">> \o subj \o <<"...">>)]

\* generate_draft's parsing of the model's text (lines 37-54)
parse_draft(content) ==
    LET raw_content == get_buffer_string(content)
        parts == split1(raw_content, DELIMITER)
    IN  IF Len(parts) = 2
        THEN LET subj == strip(replace(parts[1], SUBJECT_TAG))
             IN  [subject |-> subj,
                  body |-> strip(parts[2]),
                  log |-> log_step("Draft_Creator", "Success",
                                   <<"Subject drafted: ">> \o subj \o <<"...">>)]
        ELSE [subject |-> DRAFTING_FAILED,
              body |-> raw_content,
              log |-> log_step("Draft_Creator", "Error",
                     <<"LLM response did not follow strict SUBJECT:/BODY: format.">>)]

\* The AgentState dictionary
AgentState(g, to, subj, text, feedback, st, lg, msgs) ==
    [goal |-> g, recipient |-> to, subject |-> subj, body |-> text,
     review_feedback |-> feedback, status |-> st, logs |-> lg, messages |-> msgs]

\* A variant that keeps what the run had filled in when it failed.
Raise_keep_state ==
    /\ pc' = "ABORTED"
    /\ email_state' = <<AgentState(goal, recipient, subject, body,
                                   review_feedback, status, logs, messages)>>
    /\ UNCHANGED <<state_fields, config_fields, sessions, draftResponse, path,
                   stepsDone, dispatchAttempts, dispatch_history>>

\* A node raised: the exception leaves email_agent.invoke, run_agent reports
\* it and clears the stored state (app.py lines 112-114), and the run is over.
Raise ==
    /\ pc' = "ABORTED"
    /\ email_state' = <<>>
    /\ UNCHANGED <<state_fields, config_fields, sessions, draftResponse, path,
                   stepsDone, dispatchAttempts, dispatch_history>>

generate_draft ==
    /\ pc = "START"
    /\ IF ~AGENT_CONFIG.llm_with_tools
       THEN Raise
       ELSE \/ Raise       \* llm_with_tools.invoke raises
            \/ \E content \in DraftTexts :
                  LET d == parse_draft(content)
                  IN  /\ subject' = d.subject
                      /\ body' = d.body
                      /\ logs' = append_log(logs, d.log)
                      /\ messages' = Append(messages,
                            AIMessage(<<"Subject: ">> \o d.subject
                                      \o <<"\nBody: ">> \o d.body, <<>>))
                      /\ draftResponse' = <<content>>
                      /\ stepsDone' = stepsDone + 1
                      /\ pc' = "DRAFTED"
                      /\ UNCHANGED <<goal, recipient, review_feedback, status,
                                     config_fields, email_state, sessions,
                                     path, dispatchAttempts, dispatch_history>>

\* The structured action requests a Review response may carry.
ToolCall(name, args) == [name |-> name, args |-> args]

OtherRecipient(to) == CHOOSE r \in Recipients : r # to

ToolCallLists(to, subj, text) ==
    LET own == MakeArgs(to, subj, text)
        alt == MakeArgs(OtherRecipient(to), <<"Alt">>, <<"Alt body">>)
        bad == [keys |-> {"recipient", "subject"}, recipient |-> to,
                subject |-> subj, body |-> <<>>]
    IN  { <<>>,
          <<ToolCall("send_email", own)>>,
          <<ToolCall("send_email", alt)>>,
          <<ToolCall("send_email", bad)>>,
          <<ToolCall("other_tool", own)>>,
          <<ToolCall("send_email", alt), ToolCall("send_email", own)>>,
          <<ToolCall("other_tool", own), ToolCall("send_email", own)>> }

\* The part of a text that follows its first revision marker
TextAfterMarker(text) ==
    IF Contains(text, REVISION_MARKER)
    THEN SubSeq(text, FirstIndex(text, REVISION_MARKER) + 1, Len(text))
    ELSE text

\* A variant that stores only what follows the marker.
feedback_after_marker(content) == TextAfterMarker(content)

\* What review_and_decide stores as review_feedback (line 98)
feedback_of(content) == content

review_and_decide ==
    /\ pc = "DRAFTED"
    /\ IF ~AGENT_CONFIG.llm_with_tools
       THEN Raise
       ELSE \/ Raise       \* llm_with_tools.invoke raises
            \/ \E content \in ReviewTexts,
                  tool_calls \in ToolCallLists(recipient, subject, body) :
                  /\ review_feedback' = feedback_of(content)
                  /\ messages' = Append(messages, AIMessage(content, tool_calls))
                  /\ logs' = append_log(logs,
                        log_step("Decision_Maker", "Complete",
                                 <<"Decided to: ",
                                   IF tool_calls # <<>> THEN "Call Tool"
                                   ELSE "Give Feedback">>))
                  /\ stepsDone' = stepsDone + 1
                  /\ pc' = "REVIEWED"
                  /\ UNCHANGED <<goal, recipient, subject, body, status,
                                 config_fields, email_state, sessions,
                                 draftResponse, path,
                                 dispatchAttempts, dispatch_history>>

last_tool_calls(msgs) == msgs[Len(msgs)].tool_calls

\* A variant of the edge that looks for the rejection text first.
route_next_step_marker_first(msgs, feedback) ==
    IF Contains(feedback, REVISION_MARKER) THEN "END_FEEDBACK"
    ELSE "tool_executor"

\* A variant of the edge that never stops for revision.
route_next_step_always_send(msgs, feedback) == "tool_executor"

\* The conditional edge after decision_maker (lines 157-172)
route_next_step(msgs, feedback) ==
    IF last_tool_calls(msgs) # <<>> THEN "tool_executor"
    ELSE IF Contains(feedback, REVISION_MARKER) THEN "END_FEEDBACK"
    ELSE "tool_executor"

\* A variant of the lookup that takes the first tool whatever its name.
HasTool_any(tools, name) == tools # <<>>

\* next(t for t in dynamic_tools if t.name == name) finds a tool
HasTool(tools, name) == \E i \in 1..Len(tools) : tools[i] = name

\* A variant that takes the last of the requests.
last_tool_call(tool_calls) == tool_calls[Len(tool_calls)]

\* tool_calls[0] (line 117)
first_tool_call(tool_calls) == tool_calls[1]

\* A variant that names the entry after the result text.
explicit_log_by_result(tool_result) ==
    log_step("Tool_Executor",
             IF Contains(tool_result, "SUCCESS") THEN "Success" ELSE "Error",
             <<"Tool output: ">> \o tool_result)

\* The entry of the explicit path (line 152)
explicit_log(tool_result) ==
    log_step("Tool_Executor", "Complete", <<"Tool output: ">> \o tool_result)

MANUAL_FAILED == <<"ERROR", ": Manual execution failed. Details: ">>

NoOutcome ==
    [raised |-> TRUE, path |-> "none", status |-> <<>>,
     log |-> log_step("Tool_Executor", "", <<>>),
     args |-> <<>>, calls |-> 0, connects |-> 0]

\* A variant of the body without the try/except of the forced execution.
tool_executor_node_no_catch(tools, tool_calls, to, subj, text, username, password, reply) ==
    IF tools = <<>>
    THEN NoOutcome                                   \* "Tools not configured"
    ELSE IF tool_calls # <<>>
    THEN LET tool_call == first_tool_call(tool_calls)
         IN  IF ~HasTool(tools, tool_call.name)
             THEN [NoOutcome EXCEPT !.path = "explicit"]        \* StopIteration
             ELSE LET r == tool_invoke(tool_call.args, username, password, reply)
                  IN  IF r.raised
                      THEN [NoOutcome EXCEPT !.path = "explicit",
                                             !.args = <<tool_call.args>>,
                                             !.calls = r.calls,
                                             !.connects = r.connects]
                      ELSE [raised |-> FALSE, path |-> "explicit",
                            status |-> r.result,
                            log |-> explicit_log(r.result),
                            args |-> <<tool_call.args>>,
                            calls |-> r.calls, connects |-> r.connects]
    ELSE LET forced_error ==
                 [raised |-> FALSE, path |-> "synthesized",
                  status |-> MANUAL_FAILED,
                  log |-> log_step("Tool_Executor", "Forced_Error",
                                   <<"Manual tool execution failed. Check .env: ">>),
                  args |-> <<>>, calls |-> 0, connects |-> 0]
         IN  IF ~HasTool(tools, "send_email")
             THEN [NoOutcome EXCEPT !.path = "synthesized"]
             ELSE LET args == MakeArgs(to, subj, text)
                      r == tool_invoke(args, username, password, reply)
                  IN  IF r.raised
                      THEN [NoOutcome EXCEPT !.path = "synthesized",
                                             !.args = <<args>>,
                                             !.calls = r.calls,
                                             !.connects = r.connects]
                      ELSE [raised |-> FALSE, path |-> "synthesized",
                            status |-> r.result,
                            log |-> log_step("Tool_Executor", "Forced_Success",
                                    <<"Tool call was synthesized and executed.">>),
                            args |-> <<args>>,
                            calls |-> r.calls, connects |-> r.connects]

\* The body of tool_executor (lines 108-155): what it returns or that it raises,
\* with the branch it took, the arguments it handed to the dispatch action and
\* the dispatcher's invocations and connections.
tool_executor_node(tools, tool_calls, to, subj, text, username, password, reply) ==
    IF tools = <<>>
    THEN NoOutcome                                   \* "Tools not configured"
    ELSE IF tool_calls # <<>>
    THEN LET tool_call == first_tool_call(tool_calls)
         IN  IF ~HasTool(tools, tool_call.name)
             THEN [NoOutcome EXCEPT !.path = "explicit"]        \* StopIteration
             ELSE LET r == tool_invoke(tool_call.args, username, password, reply)
                  IN  IF r.raised
                      THEN [NoOutcome EXCEPT !.path = "explicit",
                                             !.args = <<tool_call.args>>,
                                             !.calls = r.calls,
                                             !.connects = r.connects]
                      ELSE [raised |-> FALSE, path |-> "explicit",
                            status |-> r.result,
                            log |-> explicit_log(r.result),
                            args |-> <<tool_call.args>>,
                            calls |-> r.calls, connects |-> r.connects]
    ELSE LET forced_error ==
                 [raised |-> FALSE, path |-> "synthesized",
                  status |-> MANUAL_FAILED,
                  log |-> log_step("Tool_Executor", "Forced_Error",
                                   <<"Manual tool execution failed. Check .env: ">>),
                  args |-> <<>>, calls |-> 0, connects |-> 0]
         IN  IF ~HasTool(tools, "send_email")
             THEN forced_error                       \* StopIteration, caught
             ELSE LET args == MakeArgs(to, subj, text)
                      r == tool_invoke(args, username, password, reply)
                  IN  IF r.raised
                      THEN [forced_error EXCEPT !.args = <<args>>,
                                                !.calls = r.calls,
                                                !.connects = r.connects]
                      ELSE [raised |-> FALSE, path |-> "synthesized",
                            status |-> r.result,
                            log |-> log_step("Tool_Executor", "Forced_Success",
                                    <<"Tool call was synthesized and executed.">>),
                            args |-> <<args>>,
                            calls |-> r.calls, connects |-> r.connects]

tool_executor ==
    /\ pc = "REVIEWED"
    /\ route_next_step(messages, review_feedback) = "tool_executor"
    /\ \E reply \in SmtpReplies :
          LET out == tool_executor_node(AGENT_CONFIG.tools, last_tool_calls(messages),
                                        recipient, subject, body,
                                        smtp_username, smtp_password, reply)
          IN  /\ dispatchAttempts' = dispatchAttempts + 1
              /\ path' = out.path
              /\ dispatchArgs' = out.args
              /\ dispatcherCalls' = dispatcherCalls + out.calls
              /\ connectionAttempts' = connectionAttempts + out.connects
              /\ smtpReply' = IF out.connects > 0 THEN reply ELSE "none"
              /\ IF out.raised
                 THEN /\ pc' = "ABORTED"
                      /\ email_state' = <<>>          \* app.py line 114
                      /\ UNCHANGED <<status, logs, stepsDone>>
                 ELSE /\ pc' = "DISPATCHED"
                      /\ status' = out.status
                      /\ logs' = append_log(logs, out.log)
                      /\ stepsDone' = stepsDone + 1
                      /\ email_state' =               \* app.py line 110
                            <<AgentState(goal, recipient, subject, body,
                                         review_feedback, status', logs', messages)>>
              /\ UNCHANGED <<goal, recipient, subject, body, review_feedback,
                             messages, config_fields, sessions, draftResponse>>

\* A variant of the edge that sends the draft back to the reviewer.
END_FEEDBACK_review_again ==
    /\ pc = "REVIEWED"
    /\ route_next_step(messages, review_feedback) = "END_FEEDBACK"
    /\ pc' = "DRAFTED"
    /\ UNCHANGED <<state_fields, config_fields, email_state, sessions,
                   draftResponse, path, stepsDone, dispatchAttempts,
                   dispatch_history>>

\* A variant of the edge that records the rejection in status.
END_FEEDBACK_with_status ==
    /\ pc = "REVIEWED"
    /\ route_next_step(messages, review_feedback) = "END_FEEDBACK"
    /\ pc' = "STOPPED"
    /\ path' = "stop"
    /\ status' = <<"REVISION_REQUIRED">>
    /\ email_state' = <<AgentState(goal, recipient, subject, body,
                                   review_feedback, status', logs, messages)>>
    /\ UNCHANGED <<goal, recipient, subject, body, review_feedback, logs,
                   messages, config_fields, sessions, draftResponse,
                   stepsDone, dispatchAttempts, dispatch_history>>

\* The conditional edge to END (lines 166-168, 196)
END_FEEDBACK ==
    /\ pc = "REVIEWED"
    /\ route_next_step(messages, review_feedback) = "END_FEEDBACK"
    /\ pc' = "STOPPED"
    /\ path' = "stop"
    /\ email_state' = <<AgentState(goal, recipient, subject, body,   \* app.py line 110
                                   review_feedback, status, logs, messages)>>
    /\ UNCHANGED <<state_fields, config_fields, sessions, draftResponse,
                   stepsDone, dispatchAttempts, dispatch_history>>

----------------------------------------------------------------------------
(* Two browser sessions of the Streamlit process: each runs run_agent in its
   own script thread, and both threads see the one AGENT_CONFIG dictionary of
   the imported module src.agent.graph.  Here a model client is named by the
   API key it was created with (None is ""), a tool by its name and the
   credentials its lambda closes over (None and the empty list are <<>>), and
   the route the reviewer's answer leads to is an input of the Review step. *)

SessionIds == {"A", "B"}

GeminiKey(s) == "key-" \o s

SmtpUsername(s) == s \o "@gmail.com"

SmtpPassword(s) == "app-password-" \o s

\* create_llm(api_key=gemini_key).bind(...) (app.py lines 83-86)
ClientOf(s) == GeminiKey(s)

\* dynamic_tools of the session (app.py lines 61-76)
ToolsOf(s) ==
    <<[name |-> "send_email", username |-> SmtpUsername(s),
       password |-> SmtpPassword(s)]>>

run_fields ==
    <<state_fields, smtp_username, smtp_password, pc, email_state, draftResponse,
      path, stepsDone, dispatchAttempts, dispatch_history>>

SessionAt(s, at) == sessions[s].pc = at

SessionStep(s, to) == [sessions EXCEPT ![s].pc = to]

\* Input validation of run_agent (app.py lines 45-54)
run_agent_validate(s) ==
    /\ SessionAt(s, "idle")
    /\ sessions' = SessionStep(s, IF sessions[s].gemini_key = "" THEN "REJECTED"
                                  ELSE "validated")
    /\ UNCHANGED <<AGENT_CONFIG, run_fields>>

\* Tool and client creation (app.py lines 58-86)
run_agent_create(s) ==
    /\ SessionAt(s, "validated")
    /\ sessions' = [sessions EXCEPT ![s].pc = "created",
                                    ![s].dynamic_tools = ToolsOf(s),
                                    ![s].llm_with_tools = ClientOf(s)]
    /\ UNCHANGED <<AGENT_CONFIG, run_fields>>

\* AGENT_CONFIG["llm_with_tools"] = llm_with_tools (app.py line 89)
run_agent_set_llm(s) ==
    /\ SessionAt(s, "created")
    /\ AGENT_CONFIG' = [AGENT_CONFIG EXCEPT
                           !.llm_with_tools = sessions[s].llm_with_tools]
    /\ sessions' = SessionStep(s, "llm_set")
    /\ UNCHANGED run_fields

\* AGENT_CONFIG["tools"] = dynamic_tools, then the graph is built and invoked
\* (app.py lines 90-107)
run_agent_set_tools(s) ==
    /\ SessionAt(s, "llm_set")
    /\ AGENT_CONFIG' = [AGENT_CONFIG EXCEPT !.tools = sessions[s].dynamic_tools]
    /\ sessions' = SessionStep(s, "START")
    /\ UNCHANGED run_fields

\* A node of the session's run raised (app.py lines 112-114)
session_Raise(s) ==
    /\ sessions' = SessionStep(s, "ABORTED")
    /\ UNCHANGED <<AGENT_CONFIG, run_fields>>

\* generate_draft fetches the client from AGENT_CONFIG and calls it
\* (graph.py lines 24-35)
session_generate_draft(s) ==
    /\ SessionAt(s, "START")
    /\ IF AGENT_CONFIG.llm_with_tools = ""
       THEN session_Raise(s)
       ELSE \/ session_Raise(s)      \* llm_with_tools.invoke raises
            \/ /\ sessions' = [sessions EXCEPT
                     ![s].pc = "DRAFTED",
                     ![s].usedClients = Append(@, AGENT_CONFIG.llm_with_tools)]
               /\ UNCHANGED <<AGENT_CONFIG, run_fields>>

\* review_and_decide fetches the client from AGENT_CONFIG and calls it; the
\* answer decides the route (graph.py lines 71-101, 157-172)
session_review_and_decide(s) ==
    /\ SessionAt(s, "DRAFTED")
    /\ IF AGENT_CONFIG.llm_with_tools = ""
       THEN session_Raise(s)
       ELSE \/ session_Raise(s)      \* llm_with_tools.invoke raises
            \/ \E r \in {"tool_executor", "END_FEEDBACK"} :
                  /\ sessions' = [sessions EXCEPT
                        ![s].pc = "REVIEWED",
                        ![s].route = r,
                        ![s].usedClients =
                            Append(@, AGENT_CONFIG.llm_with_tools)]
                  /\ UNCHANGED <<AGENT_CONFIG, run_fields>>

\* tool_executor fetches the tools from AGENT_CONFIG and invokes send_email
\* (graph.py lines 108-155)
session_tool_executor(s) ==
    /\ SessionAt(s, "REVIEWED")
    /\ sessions[s].route = "tool_executor"
    /\ IF AGENT_CONFIG.tools = <<>>
       THEN session_Raise(s)
       ELSE /\ sessions' = [sessions EXCEPT
                  ![s].pc = "DISPATCHED",
                  ![s].usedTools = Append(@, AGENT_CONFIG.tools)]
            /\ UNCHANGED <<AGENT_CONFIG, run_fields>>

\* The conditional edge to END (graph.py lines 166-168, 196)
session_END_FEEDBACK(s) ==
    /\ SessionAt(s, "REVIEWED")
    /\ sessions[s].route = "END_FEEDBACK"
    /\ sessions' = SessionStep(s, "STOPPED")
    /\ UNCHANGED <<AGENT_CONFIG, run_fields>>

----------------------------------------------------------------------------
(* The presentation layer's reading of the final state: src/app.py *)

\* A variant that looks at the feedback before the status.
Render_feedback_first(st, feedback) ==
    IF Contains(feedback, REVISION_MARKER) THEN "revision"
    ELSE IF st # <<>>
    THEN IF Contains(st, "SUCCESS") THEN "sent" ELSE "failed"
    ELSE "unknown"

\* Which of the result sections app.py renders (lines 139-175)
Render(st, feedback) ==
    IF st # <<>>
    THEN IF Contains(st, "SUCCESS") THEN "sent" ELSE "failed"
    ELSE IF Contains(feedback, REVISION_MARKER) THEN "revision"
    ELSE "unknown"

\* The feedback text app.py shows (line 166)
feedback_text(feedback) == strip(replace(feedback, REVISION_MARKER))

----------------------------------------------------------------------------
(* The specification *)

\* The final state an earlier run of the session left in st.session_state
EarlierState ==
    AgentState(<<"an earlier goal">>, <<"a", "@", "b.com">>, <<"Earlier">>,
               <<"Earlier body">>, <<REVISION_MARKER, " ", "tone too casual">>,
               <<>>, <<>>, <<>>)

NoSessions == <<>>

Init ==
    /\ goal = <<"ask for report">>
    /\ recipient \in Recipients
    /\ subject = <<>>
    /\ body = <<>>
    /\ review_feedback = <<>>
    /\ status = <<>>
    /\ logs = <<>>
    /\ messages = <<>>
    /\ AGENT_CONFIG \in [llm_with_tools : BOOLEAN, tools : ToolSets]
    /\ smtp_username \in Usernames
    /\ smtp_password \in Passwords
    /\ pc = "START"
    /\ email_state \in {<<>>, <<EarlierState>>}
    /\ sessions = NoSessions
    /\ draftResponse = <<>>
    /\ path = "none"
    /\ stepsDone = 0
    /\ dispatchAttempts = 0
    /\ dispatcherCalls = 0
    /\ connectionAttempts = 0
    /\ dispatchArgs = <<>>
    /\ smtpReply = "none"

Next ==
    \/ generate_draft
    \/ review_and_decide
    \/ tool_executor
    \/ END_FEEDBACK

Spec == Init /\ [][Next]_vars

\* The sessions before either user has pressed the button: the module was
\* imported, AGENT_CONFIG is as graph.py line 12 leaves it, and each sidebar
\* holds its user's credentials, with or without the API key.
InitSessions ==
    /\ AGENT_CONFIG = [llm_with_tools |-> "", tools |-> <<>>]
    /\ sessions \in
          { [s \in SessionIds |->
                [pc |-> "idle",
                 gemini_key |-> IF filled[s] THEN GeminiKey(s) ELSE "",
                 dynamic_tools |-> <<>>, llm_with_tools |-> "",
                 route |-> "none", usedClients |-> <<>>, usedTools |-> <<>>]] :
            filled \in [SessionIds -> BOOLEAN] }
    /\ goal = <<>>
    /\ recipient = <<>>
    /\ subject = <<>>
    /\ body = <<>>
    /\ review_feedback = <<>>
    /\ status = <<>>
    /\ logs = <<>>
    /\ messages = <<>>
    /\ smtp_username = ""
    /\ smtp_password = ""
    /\ pc = "START"
    /\ email_state = <<>>
    /\ draftResponse = <<>>
    /\ path = "none"
    /\ stepsDone = 0
    /\ dispatchAttempts = 0
    /\ dispatcherCalls = 0
    /\ connectionAttempts = 0
    /\ dispatchArgs = <<>>
    /\ smtpReply = "none"

NextSessions ==
    \E s \in SessionIds :
        \/ run_agent_validate(s)
        \/ run_agent_create(s)
        \/ run_agent_set_llm(s)
        \/ run_agent_set_tools(s)
        \/ session_generate_draft(s)
        \/ session_review_and_decide(s)
        \/ session_tool_executor(s)
        \/ session_END_FEEDBACK(s)

SpecSessions == InitSessions /\ [][NextSessions]_vars

\* email_agent.invoke runs the graph's nodes one after the other in the
\* calling thread until END or an exception (app.py line 107).
FairSpec == Spec /\ WF_vars(Next)

----------------------------------------------------------------------------
(* The claims *)

ReviewResponse == messages[Len(messages)]

Reviewed == Len(messages) = 2

HasActionRequest == Reviewed /\ ReviewResponse.tool_calls # <<>>

HasMarker == Reviewed /\ Contains(ReviewResponse.content, REVISION_MARKER)

ExpectedPath(request, marker) ==
    IF request THEN "explicit" ELSE IF marker THEN "stop" ELSE "synthesized"

\* C1: after Review the route is decided by (has Action Request, has revision
\* marker) alone: (true, any) dispatches with the request's arguments,
\* (false, true) stops for revision, (false, false) dispatches with synthesized
\* arguments; exactly one route is open in every reviewed state.
C1_RouteTable ==
    /\ pc = "REVIEWED" =>
          /\ route_next_step(messages, review_feedback) =
                (IF ExpectedPath(HasActionRequest, HasMarker) = "stop"
                 THEN "END_FEEDBACK" ELSE "tool_executor")
          /\ (ENABLED tool_executor) # (ENABLED END_FEEDBACK)
    /\ path # "none" => path = ExpectedPath(HasActionRequest, HasMarker)

C1_Witness ==
    /\ pc = "DISPATCHED"
    /\ path = "explicit"
    /\ HasMarker

C4_FeedbackIsTextAfterMarker ==
    (pc = "STOPPED" /\ HasMarker /\ ~HasActionRequest) =>
        review_feedback = TextAfterMarker(ReviewResponse.content)

\* C4 as amended: with no Action Request and the marker in the response text,
\* review_feedback is the whole response text, marker included, to the end of
\* the run; for "REVISION: tone too casual" the text with the marker removed
\* and trimmed, which is what the presentation layer shows, is
\* "tone too casual".
C4_FeedbackIsWholeText ==
    (HasMarker /\ ~HasActionRequest) =>
        /\ review_feedback = ReviewResponse.content
        /\ Contains(review_feedback, REVISION_MARKER)
        /\ pc \in {"REVIEWED", "STOPPED"}
        /\ ReviewResponse.content = ScenarioBText =>
              /\ strip(review_feedback) # <<"tone too casual">>
              /\ feedback_text(review_feedback) = <<"tone too casual">>

C4_Witness ==
    /\ pc = "STOPPED"
    /\ ReviewResponse.content = ScenarioBText
    /\ review_feedback = ScenarioBText

IsPrefix(s, t) == Len(s) <= Len(t) /\ SubSeq(t, 1, Len(s)) = s

LogNodes == [i \in 1..Len(logs) |-> logs[i].node]

\* C5: the Run Log is append-only and as long as the number of steps executed:
\* every step leaves the old log as a prefix and adds exactly one entry, no
\* other transition touches it, a stopped run ends with the 2 entries of Draft
\* and Review and a dispatched run with the 3 entries of Draft, Review and
\* Dispatch, in that order.
C5_LogAppendOnly ==
    /\ [](/\ Len(logs) = stepsDone
          /\ pc = "STOPPED" => LogNodes = <<"Draft_Creator", "Decision_Maker">>
          /\ pc = "DISPATCHED" =>
                LogNodes = <<"Draft_Creator", "Decision_Maker", "Tool_Executor">>)
    /\ [][/\ IsPrefix(logs, logs')
          /\ Len(logs') + stepsDone = Len(logs) + stepsDone'
          /\ Len(logs') <= Len(logs) + 1]_vars

C5_Witness ==
    /\ pc = "DISPATCHED"
    /\ Len(logs) = 3
    /\ stepsDone = 3

NoDelimiter == draftResponse # <<>> /\ ~Contains(draftResponse[1], DELIMITER)

\* C6: when the Draft response lacks the delimiter, the Draft step completes
\* (the run is not aborted by it), appends exactly one entry, of outcome Error,
\* sets subject to "ERROR: Drafting Failed" and body to the raw unparsed text
\* (raw_content, the buffer string of the response), and the step that follows
\* is the Review step.
C6_DraftFailureAbsorbed ==
    /\ [](NoDelimiter =>
            /\ stepsDone >= 1
            /\ logs[1].node = "Draft_Creator"
            /\ logs[1].status = "Error"
            /\ subject = DRAFTING_FAILED
            /\ body = get_buffer_string(draftResponse[1])
            /\ pc = "DRAFTED" => Len(logs) = 1 /\ ENABLED review_and_decide)
    /\ [][(NoDelimiter /\ pc = "DRAFTED") =>
            /\ pc' \in {"REVIEWED", "ABORTED"}
            /\ pc' = "REVIEWED" =>
                  Len(logs') = 2 /\ logs'[2].node = "Decision_Maker"]_vars

C6_Witness ==
    /\ NoDelimiter
    /\ pc = "REVIEWED"
    /\ subject = DRAFTING_FAILED
    /\ logs[1].status = "Error"

\* C7 as stated: on the synthesized path the third log entry is Forced_Success
\* when the Mail Dispatcher returned a success and Forced_Error when it
\* returned an error.
C7_ForcedOutcomeFollowsResult ==
    (pc = "DISPATCHED" /\ path = "synthesized" /\ dispatcherCalls = 1) =>
        logs[3].status =
            (IF Head(status) = "SUCCESS" THEN "Forced_Success" ELSE "Forced_Error")

CredentialsGiven == smtp_username # "" /\ smtp_password # ""

\* C8: the Mail Dispatcher checks before it connects: with an empty username
\* or secret the result is the credentials-missing error, with a recipient
\* without '@' it is the invalid-recipient error, in both cases with no
\* connection attempt; it connects, once, only when both checks pass.
C8_PreconditionsBeforeNetwork ==
    dispatcherCalls > 0 =>
        LET to == dispatchArgs[1].recipient
        IN  /\ ~CredentialsGiven =>
                  status = CREDENTIALS_MISSING /\ connectionAttempts = 0
            /\ (CredentialsGiven /\ ~Contains(to, "@")) =>
                  status = INVALID_RECIPIENT /\ connectionAttempts = 0
            /\ (CredentialsGiven /\ Contains(to, "@")) <=> connectionAttempts = 1
            /\ connectionAttempts <= 1

C8_Witness ==
    /\ dispatcherCalls = 1
    /\ CredentialsGiven
    /\ ~Contains(dispatchArgs[1].recipient, "@")
    /\ status = INVALID_RECIPIENT
    /\ connectionAttempts = 0

DispatchFailure ==
    IF ~CredentialsGiven THEN CREDENTIALS_MISSING
    ELSE IF ~Contains(dispatchArgs[1].recipient, "@") THEN INVALID_RECIPIENT
    ELSE IF smtpReply = "auth_rejected" THEN AUTH_FAILED
    ELSE IF smtpReply = "transport_error" THEN SMTP_FAILED
    ELSE <<>>

\* C9: every expected Mail Dispatcher failure (missing credentials, malformed
\* recipient, authentication rejection, another transport error) comes back as
\* an error-prefixed text and is not raised: the run is not aborted, status is
\* that text and the run ends DISPATCHED with 3 log entries.
C9_FailuresAreText ==
    (dispatcherCalls > 0 /\ DispatchFailure # <<>>) =>
        /\ pc = "DISPATCHED"
        /\ status = DispatchFailure
        /\ Head(status) = "ERROR"
        /\ Len(logs) = 3

C9_Witness ==
    /\ dispatcherCalls = 1
    /\ path = "explicit"
    /\ smtpReply = "transport_error"
    /\ status = SMTP_FAILED
    /\ pc = "DISPATCHED"

Shown == Render(status, review_feedback)

\* C10: a completed run shows exactly one of three outcomes: sent (a dispatched
\* run whose status is a success), send failed (a dispatched run whose status
\* is an error) or revision requested (a stopped run, status empty and the
\* marker in review_feedback); the 'Unknown Final State' branch is never taken.
C10_ThreeOutcomes ==
    pc \in {"DISPATCHED", "STOPPED"} =>
        /\ Shown \in {"sent", "failed", "revision"}
        /\ Shown = "sent" <=>
              (pc = "DISPATCHED" /\ status # <<>> /\ Head(status) = "SUCCESS"
               /\ smtpReply = "ok")
        /\ Shown = "failed" <=>
              (pc = "DISPATCHED" /\ status # <<>> /\ Head(status) = "ERROR")
        /\ Shown = "revision" <=>
              (pc = "STOPPED" /\ status = <<>>
               /\ Contains(review_feedback, REVISION_MARKER))

C10_Witness ==
    /\ pc = "DISPATCHED"
    /\ Contains(review_feedback, REVISION_MARKER)
    /\ Shown = "failed"

FailedBeforeDispatch == pc = "ABORTED" /\ dispatchAttempts = 0

\* C11: when the Draft or the Review step raises (the model call fails, or no
\* model is configured), the run is aborted there: no later step executes, the
\* Mail Dispatcher is never invoked and no connection is opened, and the
\* caller's stored final state is cleared (None), whatever it held before.
C11_ModelFailureAborts ==
    /\ [](FailedBeforeDispatch =>
            /\ email_state = <<>>
            /\ dispatcherCalls = 0
            /\ connectionAttempts = 0
            /\ status = <<>>
            /\ stepsDone <= 1
            /\ Len(logs) = stepsDone)
    /\ [][pc # "ABORTED"]_vars

C11_Witness ==
    /\ FailedBeforeDispatch
    /\ AGENT_CONFIG.llm_with_tools
    /\ stepsDone = 1
    /\ subject # <<>>
    /\ email_state = <<>>

InActionSet(name) ==
    \E i \in DOMAIN AGENT_CONFIG.tools : AGENT_CONFIG.tools[i] = name

RequestedName ==
    IF HasActionRequest THEN ReviewResponse.tool_calls[1].name ELSE "send_email"

NoUsableTarget ==
    /\ dispatchAttempts > 0
    /\ ~InActionSet(RequestedName)

\* C12 as stated: on a Dispatch route with no usable dispatch target (an empty
\* action set, or none with the requested name) the run is aborted with no
\* status recorded, on the explicit and on the synthesized path alike.
C12_NoTargetAlwaysAborts ==
    NoUsableTarget => pc = "ABORTED" /\ status = <<>>

\* C12 as amended: on a Dispatch route the run is aborted with no status
\* recorded when the action set is empty (either path) or when the explicit
\* path's requested action is not in the set; on the synthesized path with a
\* non-empty set that lacks send_email the failure is caught, status is
\* "ERROR: Manual execution failed. Details: " and the run ends DISPATCHED.
C12_NoTargetAbortsUnlessForced ==
    NoUsableTarget =>
        /\ dispatcherCalls = 0
        /\ IF AGENT_CONFIG.tools = <<>> \/ HasActionRequest
           THEN /\ pc = "ABORTED"
                /\ status = <<>>
                /\ email_state = <<>>
                /\ Len(logs) = 2
           ELSE /\ pc = "DISPATCHED"
                /\ status = MANUAL_FAILED
                /\ Len(logs) = 3

C12_Witness ==
    /\ NoUsableTarget
    /\ AGENT_CONFIG.tools = <<"send_email">>
    /\ RequestedName = "other_tool"
    /\ pc = "ABORTED"

TargetAcceptsCall ==
    /\ dispatchAttempts > 0
    /\ InActionSet(RequestedName)
    /\ HasActionRequest => ValidArgs(ReviewResponse.tool_calls[1].args)

\* What the Mail Dispatcher owes for the arguments, the credentials and the
\* server's reply of the run
DispatcherResult ==
    IF DispatchFailure # <<>> THEN DispatchFailure
    ELSE SUCCESS_TEXT(dispatchArgs[1].recipient, dispatchArgs[1].subject)

\* C15 as stated: on any Dispatch path the Mail Dispatcher is invoked exactly
\* once in the run.
C15_ExactlyOneInvocation ==
    dispatchAttempts > 0 => dispatcherCalls = 1

\* C15 as amended: on any Dispatch path the Mail Dispatcher is invoked at most
\* once in the run, with no retry after an error result and no second
\* connection: exactly once when the dispatch action is found and accepts the
\* arguments, and then its result text is what status records; not at all
\* when the dispatch step raises or the forced lookup fails.
C15_AtMostOneInvocation ==
    /\ dispatchAttempts <= 1
    /\ dispatcherCalls <= 1
    /\ connectionAttempts <= dispatcherCalls
    /\ dispatchAttempts > 0 => (dispatcherCalls = 1 <=> TargetAcceptsCall)
    /\ dispatcherCalls = 1 => pc = "DISPATCHED" /\ status = DispatcherResult

C15_Witness ==
    /\ dispatcherCalls = 1
    /\ connectionAttempts = 1
    /\ smtpReply = "auth_rejected"
    /\ status = AUTH_FAILED
    /\ pc = "DISPATCHED"

\* C16: the arguments handed to the dispatch action follow the route: on the
\* explicit path they are those of the first Action Request of the Review
\* response (not a later request's, not the run's own fields), on the
\* synthesized path they are the run's recipient, subject and body as the
\* Draft step left them.
C16_ArgumentsFollowRoute ==
    /\ dispatcherCalls = 1 => dispatchArgs # <<>>
    /\ dispatchArgs # <<>> =>
          /\ path \in {"explicit", "synthesized"}
          /\ path = "explicit" =>
                dispatchArgs[1] = ReviewResponse.tool_calls[1].args
          /\ path = "synthesized" =>
                /\ dispatchArgs[1] = MakeArgs(recipient, subject, body)
                /\ dispatchArgs[1].subject = parse_draft(draftResponse[1]).subject
                /\ dispatchArgs[1].body = parse_draft(draftResponse[1]).body

C16_Witness ==
    /\ path = "explicit"
    /\ dispatcherCalls = 1
    /\ Len(ReviewResponse.tool_calls) = 2
    /\ ReviewResponse.tool_calls[2].args # ReviewResponse.tool_calls[1].args
    /\ dispatchArgs[1].recipient # recipient
    /\ dispatchArgs[1].subject = <<"Alt">>

\* C17 as stated: on the explicit path the third log entry is Success when the
\* Mail Dispatcher returned a success and an error marker when it returned an
\* error.
C17_ExplicitOutcomeFollowsResult ==
    (pc = "DISPATCHED" /\ path = "explicit") =>
        logs[3].status = (IF Head(status) = "SUCCESS" THEN "Success" ELSE "Error")

\* C17 as amended: on the explicit path the third log entry's outcome is
\* Complete whatever the Mail Dispatcher returned, with the result text in its
\* detail; on both paths status is the dispatcher's result text for the
\* arguments sent, so the paths differ in the log entry only.
C17_ExplicitOutcomeIsComplete ==
    /\ (pc = "DISPATCHED" /\ path = "explicit") =>
          /\ logs[3].node = "Tool_Executor"
          /\ logs[3].status = "Complete"
          /\ logs[3].details = <<"Tool output: ">> \o status
    /\ (pc = "DISPATCHED" /\ dispatcherCalls = 1) =>
          /\ status = DispatcherResult
          /\ logs[3].status = "Complete" <=> path = "explicit"

C17_Witness ==
    /\ pc = "DISPATCHED"
    /\ path = "explicit"
    /\ Head(status) = "ERROR"
    /\ logs[3].status = "Complete"

\* C20: on the synthesized path with a non-empty action set no failure leaves
\* the dispatch step: the run ends DISPATCHED with 3 log entries, and when the
\* send action is missing or its invocation raises, status is the text "ERROR:
\* Manual execution failed..." and the third entry is Forced_Error; on the
\* explicit path a missing action or a raising invocation aborts the run.
C20_ForcedPathAbsorbsFailures ==
    /\ path = "synthesized" =>
          /\ pc = "DISPATCHED"
          /\ Len(logs) = 3
          /\ status # <<>>
          /\ (~InActionSet("send_email") \/ dispatcherCalls = 0) =>
                /\ SubSeq(status, 1, 2) = MANUAL_FAILED
                /\ logs[3].status = "Forced_Error"
                /\ dispatcherCalls = 0
    /\ (path = "explicit" /\ ~TargetAcceptsCall) =>
          /\ pc = "ABORTED"
          /\ status = <<>>
          /\ Len(logs) = 2
          /\ dispatcherCalls = 0

C20_Witness ==
    /\ path = "synthesized"
    /\ AGENT_CONFIG.tools = <<"other_tool">>
    /\ status = MANUAL_FAILED
    /\ logs[3].status = "Forced_Error"
    /\ pc = "DISPATCHED"

Terminal == {"DISPATCHED", "STOPPED", "ABORTED"}

StepEdges ==
    { <<"START", "DRAFTED">>, <<"DRAFTED", "REVIEWED">>,
      <<"REVIEWED", "DISPATCHED">>, <<"REVIEWED", "STOPPED">>,
      <<"START", "ABORTED">>, <<"DRAFTED", "ABORTED">>,
      <<"REVIEWED", "ABORTED">> }

AllowedStep == (<<pc, pc'>>) \in StepEdges

\* C18: every run executes Draft, then Review, then exactly one of Dispatch
\* and Stop, and then terminates (or is aborted by a step that raises): no
\* step runs twice, none runs after the terminal step, Review never runs
\* before Draft and Dispatch never before Review.
C18_StepOrder ==
    /\ [][AllowedStep]_vars
    /\ [](IsPrefix(LogNodes, <<"Draft_Creator", "Decision_Maker", "Tool_Executor">>))
    /\ [](dispatchAttempts > 0 => Len(messages) = 2)
    /\ [](Len(messages) > 0 => draftResponse # <<>>)
    /\ [](pc \in {"DISPATCHED", "STOPPED"} =>
            /\ Len(messages) = 2
            /\ pc = "DISPATCHED" <=> dispatchAttempts = 1
            /\ pc = "STOPPED" <=> (path = "stop" /\ dispatchAttempts = 0)
            /\ stepsDone = (IF pc = "DISPATCHED" THEN 3 ELSE 2))
    /\ <>[](pc \in Terminal)

C18_Witness ==
    /\ pc = "DISPATCHED"
    /\ stepsDone = 3
    /\ dispatchAttempts = 1
    /\ LogNodes = <<"Draft_Creator", "Decision_Maker", "Tool_Executor">>

\* C19: no step changes goal or recipient; subject and body are empty until
\* the Draft step and are changed by no other step; review_feedback is changed
\* only by the Review step and status only by the Dispatch step.
C19_Frame ==
    /\ [][/\ goal' = goal
          /\ recipient' = recipient
          /\ (subject' # subject \/ body' # body) =>
                (pc = "START" /\ pc' = "DRAFTED")
          /\ review_feedback' # review_feedback =>
                (pc = "DRAFTED" /\ pc' = "REVIEWED")
          /\ status' # status =>
                (pc = "REVIEWED" /\ pc' = "DISPATCHED")]_vars
    /\ [](pc = "START" => subject = <<>> /\ body = <<>>)
    /\ [](draftResponse = <<>> => subject = <<>> /\ body = <<>>)

C19_Witness ==
    /\ pc = "DISPATCHED"
    /\ subject # <<>>
    /\ body # <<>>
    /\ review_feedback # <<>>
    /\ status # <<>>
    /\ goal = <<"ask for report">>

Returned(s) == sessions[s].pc \in {"DISPATCHED", "STOPPED", "ABORTED"}

ClosesOverCredentialsOf(tool, s) ==
    tool.username = SmtpUsername(s) \/ tool.password = SmtpPassword(s)

\* C13 as stated: under every interleaving of two invocations, the Draft,
\* Review and Dispatch steps of a run use the model client and the action set
\* (with the credentials it closes over) installed for that run, never those
\* of the other run.
C13_RunsUseOwnConfig ==
    \A s \in SessionIds :
        /\ \A i \in DOMAIN sessions[s].usedClients :
              sessions[s].usedClients[i] = ClientOf(s)
        /\ \A i \in DOMAIN sessions[s].usedTools :
              /\ sessions[s].usedTools[i] = ToolsOf(s)
              /\ \A t \in SessionIds \ {s} :
                    ~ClosesOverCredentialsOf(sessions[s].usedTools[i][1], t)

\* C14 as stated: once a run's invocation has returned, with a result or with
\* a failure, the process-wide AGENT_CONFIG holds no action that closes over
\* that run's mail credentials.
C14_NoCredentialsAfterReturn ==
    \A s \in SessionIds :
        Returned(s) =>
            \A i \in DOMAIN AGENT_CONFIG.tools :
                ~ClosesOverCredentialsOf(AGENT_CONFIG.tools[i], s)

====
